---- MODULE Spec2Model ----
(***************************************************************************)
(* Model of the fueling-request tracker of src/index.tsx.                  *)
(*                                                                         *)
(* One browser tab of a device.  A page load constructs App from           *)
(* localStorage and mounts ClientView or CompanyView according to the      *)
(* `view` query parameter; loading the page again starts a new session.    *)
(* Every setRequests is followed by the save effect of App, which rewrites *)
(* the whole stored collection.                                            *)
(*                                                                         *)
(* Texts are sequences of one-character strings so that String.trim is     *)
(* computed, not assumed.  Message timestamps are left out: no handler     *)
(* reads them (they are only formatted for display).                       *)
(***************************************************************************)
EXTENDS Integers, Sequences, FiniteSets, TLC

\* ------------------------------------------------------------------ bounds
\* number of uuidv4() values the device can draw (request ids, message ids)
MaxUuid == 3

\* ------------------------------------------------------------ basic values
Views == {"Client", "Company"}
RequestStatus == {"Pending", "Confirmed", "Completed", "Cancelled"}
Fields == {"standNumber", "airline", "flightNumber", "representativeName"}
Null == "null"
Undefined == "undefined"
RequiredMessage == "required"

\* values the requester types into a form field, and into the chat input
InputValues == {<< >>, <<" ">>, <<" ", "b">>}
ChatInputs == {<<" ">>, <<" ", "o", "k">>}

\* whole forms the requester types: every field filled, and one field left
\* with a space only
FormInputs ==
    { [k \in Fields |-> <<"a">>],
      [k \in Fields |-> IF k = "airline" THEN <<" ">> ELSE <<"a">>] }

Whitespace == {" "}

\* the k-th value returned by uuidv4(): fresh, never equal to a seed id
uuidv4(k) == "uuid-" \o ToString(k)

\* String.prototype.trim
RECURSIVE TrimStart(_)
TrimStart(s) ==
    IF s = << >> THEN << >>
    ELSE IF Head(s) \in Whitespace THEN TrimStart(Tail(s)) ELSE s

RECURSIVE TrimEnd(_)
TrimEnd(s) ==
    IF s = << >> THEN << >>
    ELSE IF s[Len(s)] \in Whitespace THEN TrimEnd(SubSeq(s, 1, Len(s) - 1)) ELSE s

trim(s) == TrimEnd(TrimStart(s))

\* ---------------------------------------------------------------- seed data
initialRequests ==
    << [ id |-> "req-1", clientId |-> "client-abc",
         standNumber |-> <<"B", "7">>, airline |-> <<"E", "A">>,
         flightNumber |-> <<"M", "S", "6", "1", "2">>,
         representativeName |-> <<"A", "M">>,
         status |-> "Pending", messages |-> << >>,
         hasUnreadUpdates |-> FALSE ],
       [ id |-> "req-2", clientId |-> "client-xyz",
         standNumber |-> <<"C", "3">>, airline |-> <<"A", "A">>,
         flightNumber |-> <<"G", "9", "-", "2", "6", "1">>,
         representativeName |-> <<"F", "Z">>,
         status |-> "Confirmed",
         messages |-> << [id |-> "msg-1", sender |-> "Company", text |-> <<"o", "n">>],
                         [id |-> "msg-2", sender |-> "Client", text |-> <<"t", "y">>] >>,
         hasUnreadUpdates |-> TRUE ] >>

emptyFormData == [k \in Fields |-> << >>]
noErrors == [k \in Fields |-> Undefined]
closedModal == [isOpen |-> FALSE, action |-> Undefined, requestId |-> Undefined]
noTimer == << >>
closedTab == [open |-> FALSE, requests |-> << >>]

\* -------------------------------------------------------------------- state
VARIABLES
    localStorage,   \* fuelingServiceClientId and fuelingRequests keys
    app,            \* "unloaded" before the first page load, "mounted", or
                    \* "crashed" once an uncaught exception unmounted the tree
    storageFull,    \* localStorage.setItem throws (quota exceeded)
    tab2,           \* a second tab of the same browser: whether it is open,
                    \* and its App.requests
    uuidCount,      \* how many uuidv4() values have been drawn
    view,           \* App.view, after the effect reading the URL
    requests,       \* App.requests
    openChatId,     \* openChatId of the mounted view
    formData,       \* ClientView.formData
    errors,         \* ClientView.errors
    isSubmitting,   \* ClientView.isSubmitting
    showSuccess,    \* ClientView.showSuccess
    addTimers,      \* the pending setTimeout(..., 500) of handleSubmit, oldest
                    \* first, each with the formData its closure captured
    hideTimers,     \* number of pending setTimeout(..., 3000)
    modalState      \* CompanyView.modalState

vars == << localStorage, app, storageFull, tab2, uuidCount, view, requests, openChatId, formData, errors,
           isSubmitting, showSuccess, addTimers, hideTimers, modalState >>

\* what the handlers of this tab never write
envVars == << storageFull, tab2 >>

clientVars == << formData, errors, isSubmitting, showSuccess, addTimers, hideTimers >>

\* ------------------------------------------------------------- persistence
\* A stored item is absent (getItem returns null) or a text; the text is
\* the JSON of a collection (doc) or a text JSON.parse rejects.
JSONstringify(reqs) == [present |-> TRUE, wellFormed |-> TRUE, doc |-> reqs]
JSONparse(item) == item.doc
absentItem == [present |-> FALSE, wellFormed |-> FALSE, doc |-> << >>]
malformedItem == [present |-> TRUE, wellFormed |-> FALSE, doc |-> << >>]

\* JSON.parse(savedRequests, ...) throws a SyntaxError
parseThrows(item) == item.present /\ ~item.wellFormed

\* App: the useState initializer of requests (when JSON.parse returns)
loadRequests(storage) ==
    IF storage.fuelingRequests.present
    THEN JSONparse(storage.fuelingRequests)
    ELSE initialRequests

\* a variant of the save effect that keeps the stored requests that the
\* collection in memory does not have
saveRequests_merge(storage, reqs) ==
    LET old == IF storage.fuelingRequests.present /\ storage.fuelingRequests.wellFormed
               THEN storage.fuelingRequests.doc
               ELSE << >>
    IN  [storage EXCEPT !.fuelingRequests =
            JSONstringify(reqs \o SelectSeq(old,
                LAMBDA r : \A i \in 1..Len(reqs) : reqs[i].id # r.id))]

\* App: the effect saving requests on change
saveRequests(storage, reqs) ==
    [storage EXCEPT !.fuelingRequests = JSONstringify(reqs)]

\* getClientId: a device without a stored id stores newId
getClientId(storage, newId) ==
    IF storage.fuelingServiceClientId = Null
    THEN [storage EXCEPT !.fuelingServiceClientId = newId]
    ELSE storage

\* App.clientId of the mounted tab: the id the device has stored
clientId == localStorage.fuelingServiceClientId

\* --------------------------------------------------------- array helpers
Ids(reqs) == {reqs[i].id : i \in 1..Len(reqs)}

\* Array.prototype.find(r => r.id === id): the first match
find(reqs, id) ==
    reqs[CHOOSE i \in 1..Len(reqs) :
            reqs[i].id = id /\ \A j \in 1..(i - 1) : reqs[j].id # id]

\* Array.prototype.some(r => r.status === 'Completed')
hasCompletedRequests(reqs) == \E i \in 1..Len(reqs) : reqs[i].status = "Completed"

\* ------------------------------------------------------------ Request Store
\* a variant of updateRequest that adds the request when no id matches
App_updateRequest_upsert(prev, updatedRequest) ==
    IF updatedRequest.id \in Ids(prev)
    THEN [i \in 1..Len(prev) |->
            IF prev[i].id = updatedRequest.id THEN updatedRequest ELSE prev[i]]
    ELSE Append(prev, updatedRequest)

\* App.updateRequest: prev.map(r => r.id === updatedRequest.id ? updatedRequest : r)
App_updateRequest(prev, updatedRequest) ==
    [i \in 1..Len(prev) |->
        IF prev[i].id = updatedRequest.id THEN updatedRequest ELSE prev[i]]

\* a variant of CompanyView.updateRequest that matches on clientId
CompanyView_updateRequest_byClient(prev, updatedRequest) ==
    [i \in 1..Len(prev) |->
        IF prev[i].clientId = updatedRequest.clientId THEN updatedRequest ELSE prev[i]]

\* CompanyView.updateRequest: the same map, through setRequests
CompanyView_updateRequest(prev, updatedRequest) ==
    [i \in 1..Len(prev) |->
        IF prev[i].id = updatedRequest.id THEN updatedRequest ELSE prev[i]]

\* a variant of addRequest that pushes the new request at the end
App_addRequest_atEnd(prev, newRequestData, newId, cid) ==
    prev \o << [ id |-> newId, clientId |-> cid,
                 standNumber |-> newRequestData.standNumber,
                 airline |-> newRequestData.airline,
                 flightNumber |-> newRequestData.flightNumber,
                 representativeName |-> newRequestData.representativeName,
                 status |-> "Pending", messages |-> << >>,
                 hasUnreadUpdates |-> FALSE ] >>

\* App.addRequest: [newRequest, ...prev]
App_addRequest(prev, newRequestData, newId, cid) ==
    << [ id |-> newId, clientId |-> cid,
         standNumber |-> newRequestData.standNumber,
         airline |-> newRequestData.airline,
         flightNumber |-> newRequestData.flightNumber,
         representativeName |-> newRequestData.representativeName,
         status |-> "Pending", messages |-> << >>,
         hasUnreadUpdates |-> FALSE ] >> \o prev

\* a variant of the clear-completed filter that keeps the Pending requests only
removeCompleted_keepPending(prev) == SelectSeq(prev, LAMBDA r : r.status = "Pending")

\* handleConfirmAction, clearCompleted: prev.filter(r => r.status !== 'Completed')
removeCompleted(prev) == SelectSeq(prev, LAMBDA r : r.status # "Completed")

\* ------------------------------------------------------------ visible lists
\* a variant of the filter that lets every request through
ownRequests_all(reqs, cid) == reqs

\* ClientView.clientRequests, the filter: requests.filter(r => r.clientId === clientId)
ownRequests(reqs, cid) == SelectSeq(reqs, LAMBDA r : r.clientId = cid)

\* Array.prototype.sort with the comparator (a, b) => a.status === 'Pending' ? -1 : 1.
\* The comparator is not consistent (it never looks at b), so the order is
\* implementation-defined: every arrangement of the elements is an outcome.
sortOutcomes(s) ==
    {[i \in 1..Len(s) |-> s[p[i]]] : p \in Permutations(1..Len(s))}

\* the comparator of the sort: (a, b) => a.status === 'Pending' ? -1 : 1
compare(a, b) == IF a.status = "Pending" THEN -1 ELSE 1

\* The sort as V8 (Chrome, Edge) runs it on a list shorter than 32: the
\* initial run is counted from the front, comparing each element with its
\* predecessor (a descending run is reversed), and the rest goes in by
\* binary insertion.  Indices l, r, start are zero-based as in the engine.
RECURSIVE countRun(_, _, _)
countRun(a, idx, descending) ==
    IF idx >= Len(a) THEN Len(a)
    ELSE LET order == compare(a[idx + 1], a[idx])
         IN  IF (descending /\ order >= 0) \/ (~descending /\ order < 0)
             THEN idx
             ELSE countRun(a, idx + 1, descending)

reverseRange(a, n) == [i \in 1..Len(a) |-> IF i <= n THEN a[n + 1 - i] ELSE a[i]]

RECURSIVE binarySearch(_, _, _, _)
binarySearch(a, pivot, l, r) ==
    IF l >= r THEN l
    ELSE LET mid == l + ((r - l) \div 2)
         IN  IF compare(pivot, a[mid + 1]) < 0
             THEN binarySearch(a, pivot, l, mid)
             ELSE binarySearch(a, pivot, mid + 1, r)

RECURSIVE binaryInsertionSort(_, _)
binaryInsertionSort(a, start) ==
    IF start >= Len(a) THEN a
    ELSE LET pivot == a[start + 1]
             left == binarySearch(a, pivot, 0, start)
             moved == [i \in 1..Len(a) |->
                         IF i <= left THEN a[i]
                         ELSE IF i = left + 1 THEN pivot
                         ELSE IF i <= start + 1 THEN a[i - 1]
                         ELSE a[i]]
         IN  binaryInsertionSort(moved, start + 1)

sortV8(s) ==
    IF Len(s) < 2 THEN s
    ELSE LET descending == compare(s[2], s[1]) < 0
             runLength == countRun(s, 2, descending)
             run == IF descending THEN reverseRange(s, runLength) ELSE s
         IN  binaryInsertionSort(run, runLength)

\* ClientView.clientRequests: the lists the memo may hold
clientRequests(reqs, cid) == sortOutcomes(ownRequests(reqs, cid))

\* CompanyView renders requests.map(req => <RequestCard .../>)
companyRequests(reqs) == [i \in 1..Len(reqs) |-> reqs[i]]

\* ------------------------------------------------------------ form validation
\* a variant of validateForm that tests the raw value, without trim
validateForm_noTrim(fd) ==
    [k \in Fields |-> IF fd[k] = << >> THEN RequiredMessage ELSE Undefined]

\* ClientView.validateForm: the newErrors object
validateForm(fd) ==
    [k \in Fields |-> IF trim(fd[k]) = << >> THEN RequiredMessage ELSE Undefined]

\* Object.keys(newErrors).length === 0
isValid(newErrors) == \A k \in Fields : newErrors[k] = Undefined

\* ------------------------------------------------------------ handlers (pure part)
\* a variant of handleStatusChange that leaves hasUnreadUpdates as it was
CompanyView_handleStatusChange_noFlag(reqs, id, newStatus) ==
    IF id \in Ids(reqs)
    THEN CompanyView_updateRequest(reqs, [find(reqs, id) EXCEPT !.status = newStatus])
    ELSE reqs

\* CompanyView.handleStatusChange: the updated collection (not found: no setRequests)
CompanyView_handleStatusChange(reqs, id, newStatus) ==
    IF id \in Ids(reqs)
    THEN CompanyView_updateRequest(reqs,
            [find(reqs, id) EXCEPT !.status = newStatus, !.hasUnreadUpdates = TRUE])
    ELSE reqs

\* a variant of the operator's handleSendMessage that puts the message first
CompanyView_handleSendMessage_prepend(reqs, requestId, text, msgId) ==
    IF requestId \in Ids(reqs)
    THEN CompanyView_updateRequest(reqs,
            [find(reqs, requestId) EXCEPT
                !.messages = << [id |-> msgId, sender |-> "Company", text |-> text] >> \o @,
                !.hasUnreadUpdates = TRUE])
    ELSE reqs

\* CompanyView.handleSendMessage
CompanyView_handleSendMessage(reqs, requestId, text, msgId) ==
    IF requestId \in Ids(reqs)
    THEN CompanyView_updateRequest(reqs,
            [find(reqs, requestId) EXCEPT
                !.messages = Append(@, [id |-> msgId, sender |-> "Company", text |-> text]),
                !.hasUnreadUpdates = TRUE])
    ELSE reqs

\* a variant of the requester's handleSendMessage that also raises the flag
ClientView_handleSendMessage_flag(reqs, requestId, text, msgId) ==
    IF requestId \in Ids(reqs)
    THEN App_updateRequest(reqs,
            [find(reqs, requestId) EXCEPT
                !.messages = Append(@, [id |-> msgId, sender |-> "Client", text |-> text]),
                !.hasUnreadUpdates = TRUE])
    ELSE reqs

\* ClientView.handleSendMessage
ClientView_handleSendMessage(reqs, requestId, text, msgId) ==
    IF requestId \in Ids(reqs)
    THEN App_updateRequest(reqs,
            [find(reqs, requestId) EXCEPT
                !.messages = Append(@, [id |-> msgId, sender |-> "Client", text |-> text])])
    ELSE reqs

\* a variant of the read acknowledgement that clears the flag of every request
ClientView_clearUnread_all(reqs, request) ==
    [i \in 1..Len(reqs) |-> [reqs[i] EXCEPT !.hasUnreadUpdates = FALSE]]

\* ClientView.handleToggleChat, the read acknowledgement
ClientView_clearUnread(reqs, request) ==
    App_updateRequest(reqs, [request EXCEPT !.hasUnreadUpdates = FALSE])

\* setOpenChatId(prevId => (prevId === requestId ? null : requestId))
toggle(prevId, requestId) == IF prevId = requestId THEN Null ELSE requestId


\* a variant of setRequests that is followed by no save
SetRequests_noSave(newRequests) ==
    /\ requests' = newRequests
    /\ UNCHANGED << localStorage, app, envVars >>

\* setRequests, followed by the save effect of App.  When setItem throws,
\* nothing catches the exception of the effect and React unmounts the tree.
SetRequests(newRequests) ==
    /\ requests' = newRequests
    /\ IF storageFull
       THEN /\ localStorage' = localStorage
            /\ app' = "crashed"
       ELSE /\ localStorage' = saveRequests(localStorage, newRequests)
            /\ app' = app
    /\ UNCHANGED envVars

\* a uuid is kept for each pending deferred add
reserved == Len(addTimers)

\* ---------------------------------------------------------------------- Init
\* A fresh device after the first page load: getClientId drew the device's id,
\* the initializer substituted the seed data and the save effect stored it.
Init ==
    /\ uuidCount = 1
    /\ localStorage = [ fuelingServiceClientId |-> uuidv4(1),
                        fuelingRequests |-> JSONstringify(initialRequests) ]
    /\ app = "mounted"
    /\ storageFull = FALSE
    /\ tab2 = closedTab
    /\ view \in Views
    /\ requests = initialRequests
    /\ openChatId = Null
    /\ formData = emptyFormData
    /\ errors = noErrors
    /\ isSubmitting = FALSE
    /\ showSuccess = FALSE
    /\ addTimers = noTimer
    /\ hideTimers = 0
    /\ modalState = closedModal

\* the page is loaded with the given view parameter: App is constructed from
\* localStorage, the mounted view starts from its initial state and the
\* timers of the previous page are gone.  An exception of the initializer,
\* of getClientId or of the first save effect leaves nothing mounted.
Load(newView) ==
    /\ view' = newView
    /\ LET fresh == localStorage.fuelingServiceClientId = Null
       IN  IF \/ parseThrows(localStorage.fuelingRequests)
              \/ fresh /\ storageFull
           THEN /\ app' = "crashed"
                /\ requests' = << >>
                /\ UNCHANGED << localStorage, uuidCount >>
           ELSE /\ fresh => uuidCount < MaxUuid
                /\ uuidCount' = IF fresh THEN uuidCount + 1 ELSE uuidCount
                /\ requests' = loadRequests(localStorage)
                /\ IF storageFull
                   THEN /\ localStorage' = localStorage
                        /\ app' = "crashed"
                   ELSE /\ localStorage' =
                              saveRequests(getClientId(localStorage, uuidv4(uuidCount + 1)),
                                           loadRequests(localStorage))
                        /\ app' = "mounted"
    /\ UNCHANGED envVars
    /\ openChatId' = Null
    /\ formData' = emptyFormData
    /\ errors' = noErrors
    /\ isSubmitting' = FALSE
    /\ showSuccess' = FALSE
    /\ addTimers' = noTimer
    /\ hideTimers' = 0
    /\ modalState' = closedModal

\* --------------------------------------------------------- Requester View
\* ClientView.handleInputChange
ClientView_handleInputChange(name, value) ==
    /\ app = "mounted"
    /\ view = "Client"
    /\ formData' = [formData EXCEPT ![name] = value]
    /\ errors' = IF trim(value) # << >>
                 THEN [errors EXCEPT ![name] = Undefined]
                 ELSE errors
    /\ UNCHANGED << localStorage, app, envVars, uuidCount, view, requests, openChatId,
                    isSubmitting, showSuccess, addTimers, hideTimers, modalState >>

\* ClientView.handleInputChange once for each of the four inputs, typing the
\* form fd: each event writes its own field and clears that field's error
\* when the value is not blank.  Nothing but handleSubmit reads formData or
\* errors, so the four events are taken in one step.
ClientView_fillForm(fd) ==
    /\ app = "mounted"
    /\ view = "Client"
    /\ formData' = fd
    /\ errors' = [k \in Fields |-> IF trim(fd[k]) # << >> THEN Undefined ELSE errors[k]]
    /\ UNCHANGED << localStorage, app, envVars, uuidCount, view, requests, openChatId,
                    isSubmitting, showSuccess, addTimers, hideTimers, modalState >>

\* a variant of the submit button that is never disabled
submitDisabled_never == FALSE

\* the submit button: disabled={isSubmitting}
submitDisabled == isSubmitting

\* ClientView.handleSubmit, through the submit button
ClientView_handleSubmit ==
    /\ app = "mounted"
    /\ view = "Client"
    /\ ~submitDisabled
    /\ isValid(validateForm(formData)) => uuidCount + reserved < MaxUuid
    /\ errors' = validateForm(formData)
    /\ IF isValid(validateForm(formData))
       THEN /\ isSubmitting' = TRUE
            /\ addTimers' = Append(addTimers, formData)
       ELSE UNCHANGED << isSubmitting, addTimers >>
    /\ UNCHANGED << localStorage, app, envVars, uuidCount, view, requests, openChatId, formData,
                    showSuccess, hideTimers, modalState >>

\* ClientView.handleSubmit: the callback of setTimeout(..., 500)
ClientView_submitTimeout ==
    /\ app = "mounted"
    /\ view = "Client"
    /\ addTimers # << >>
    /\ SetRequests(App_addRequest(requests, Head(addTimers),
                                  uuidv4(uuidCount + 1), clientId))
    /\ uuidCount' = uuidCount + 1
    /\ formData' = emptyFormData
    /\ isSubmitting' = FALSE
    /\ showSuccess' = TRUE
    /\ hideTimers' = hideTimers + 1
    /\ addTimers' = Tail(addTimers)
    /\ UNCHANGED << view, openChatId, errors, modalState >>

\* ClientView.handleSubmit: the callback of setTimeout(..., 3000)
ClientView_hideTimeout ==
    /\ app = "mounted"
    /\ view = "Client"
    /\ hideTimers > 0
    /\ showSuccess' = FALSE
    /\ hideTimers' = hideTimers - 1
    /\ UNCHANGED << localStorage, app, envVars, uuidCount, view, requests, openChatId, formData,
                    errors, isSubmitting, addTimers, modalState >>

\* ClientView.handleToggleChat, through the message button of a rendered card
ClientView_handleToggleChat(requestId) ==
    /\ app = "mounted"
    /\ view = "Client"
    /\ requestId \in Ids(ownRequests(requests, clientId))
    /\ openChatId' = toggle(openChatId, requestId)
    /\ LET request == find(ownRequests(requests, clientId), requestId)
       IN  IF request.hasUnreadUpdates
           THEN SetRequests(ClientView_clearUnread(requests, request))
           ELSE UNCHANGED << requests, localStorage, app, envVars >>
    /\ UNCHANGED << uuidCount, view, formData, errors, isSubmitting, showSuccess,
                    addTimers, hideTimers, modalState >>

\* ChatInterface.handleSubmit in the open chat of a requester card,
\* calling ClientView.handleSendMessage
ClientView_sendMessage(requestId, newMessage) ==
    /\ app = "mounted"
    /\ view = "Client"
    /\ requestId \in Ids(ownRequests(requests, clientId))
    /\ openChatId = requestId
    /\ trim(newMessage) # << >>
    /\ uuidCount + reserved < MaxUuid
    /\ SetRequests(ClientView_handleSendMessage(requests, requestId,
                       trim(newMessage), uuidv4(uuidCount + 1)))
    /\ uuidCount' = uuidCount + 1
    /\ UNCHANGED << view, openChatId, formData, errors, isSubmitting, showSuccess,
                    addTimers, hideTimers, modalState >>

\* ---------------------------------------------------------- Operator View
\* RequestCard, the `disabled` attribute of the confirm button
confirmDisabled(request) == request.status \in {"Confirmed", "Completed", "Cancelled"}

\* RequestCard, the `disabled` attribute of the complete button
completeDisabled(request) == request.status \in {"Completed", "Cancelled"}

\* RequestCard, the `disabled` attribute of the cancel button
cancelDisabled(request) == request.status \in {"Completed", "Cancelled"}

\* a call of CompanyView.handleStatusChange(id, newStatus)
CompanyView_statusChangeCall(id, newStatus) ==
    /\ IF id \in Ids(requests)
       THEN SetRequests(CompanyView_handleStatusChange(requests, id, newStatus))
       ELSE UNCHANGED << requests, localStorage, app, envVars >>
    /\ UNCHANGED << uuidCount, view, openChatId, clientVars >>

\* the confirm button of a card: onStatusChange(request.id, 'Confirmed')
ConfirmButton(id) ==
    /\ app = "mounted"
    /\ view = "Company"
    /\ id \in Ids(requests)
    /\ ~confirmDisabled(find(requests, id))
    /\ CompanyView_statusChangeCall(id, "Confirmed")
    /\ UNCHANGED modalState

\* the complete button of a card: onStatusChange(request.id, 'Completed')
CompleteButton(id) ==
    /\ app = "mounted"
    /\ view = "Company"
    /\ id \in Ids(requests)
    /\ ~completeDisabled(find(requests, id))
    /\ CompanyView_statusChangeCall(id, "Completed")
    /\ UNCHANGED modalState

\* a variant of the cancel button that cancels at once, without the prompt
CancelButton_direct(id) ==
    /\ app = "mounted"
    /\ view = "Company"
    /\ id \in Ids(requests)
    /\ ~cancelDisabled(find(requests, id))
    /\ CompanyView_statusChangeCall(id, "Cancelled")
    /\ UNCHANGED modalState

\* the cancel button of a card: onCancelRequest(request.id) opens the prompt
CancelButton(id) ==
    /\ app = "mounted"
    /\ view = "Company"
    /\ id \in Ids(requests)
    /\ ~cancelDisabled(find(requests, id))
    /\ modalState' = [isOpen |-> TRUE, action |-> "cancelRequest", requestId |-> id]
    /\ UNCHANGED << localStorage, app, envVars, uuidCount, view, requests, openChatId, clientVars >>

\* the clear-completed button, rendered when hasCompletedRequests
ClearCompletedButton ==
    /\ app = "mounted"
    /\ view = "Company"
    /\ hasCompletedRequests(requests)
    /\ modalState' = [isOpen |-> TRUE, action |-> "clearCompleted", requestId |-> Undefined]
    /\ UNCHANGED << localStorage, app, envVars, uuidCount, view, requests, openChatId, clientVars >>

\* CompanyView.handleConfirmAction, the confirm button of the open prompt
CompanyView_handleConfirmAction ==
    /\ app = "mounted"
    /\ view = "Company"
    /\ modalState.isOpen
    /\ IF modalState.action = "clearCompleted"
       THEN /\ SetRequests(removeCompleted(requests))
            /\ UNCHANGED << uuidCount, view, openChatId, clientVars >>
       ELSE IF modalState.action = "cancelRequest" /\ modalState.requestId # Undefined
       THEN CompanyView_statusChangeCall(modalState.requestId, "Cancelled")
       ELSE UNCHANGED << localStorage, app, envVars, uuidCount, view, requests, openChatId, clientVars >>
    /\ modalState' = closedModal

\* the decline button of the open prompt: setModalState({isOpen: false})
ModalOnCancel ==
    /\ app = "mounted"
    /\ view = "Company"
    /\ modalState.isOpen
    /\ modalState' = closedModal
    /\ UNCHANGED << localStorage, app, envVars, uuidCount, view, requests, openChatId, clientVars >>

\* CompanyView.handleToggleChat
CompanyView_handleToggleChat(requestId) ==
    /\ app = "mounted"
    /\ view = "Company"
    /\ requestId \in Ids(requests)
    /\ openChatId' = toggle(openChatId, requestId)
    /\ UNCHANGED << localStorage, app, envVars, uuidCount, view, requests, clientVars, modalState >>

\* ChatInterface.handleSubmit in the open chat of an operator card,
\* calling CompanyView.handleSendMessage
CompanyView_sendMessage(requestId, newMessage) ==
    /\ app = "mounted"
    /\ view = "Company"
    /\ requestId \in Ids(requests)
    /\ openChatId = requestId
    /\ trim(newMessage) # << >>
    /\ uuidCount + reserved < MaxUuid
    /\ SetRequests(CompanyView_handleSendMessage(requests, requestId,
                       trim(newMessage), uuidv4(uuidCount + 1)))
    /\ uuidCount' = uuidCount + 1
    /\ UNCHANGED << view, openChatId, clientVars, modalState >>

\* --------------------------------------------------------------------- Next
CompanyNext ==
    \/ \E id \in Ids(requests) : ConfirmButton(id)
    \/ \E id \in Ids(requests) : CompleteButton(id)
    \/ \E id \in Ids(requests) : CancelButton(id)
    \/ ClearCompletedButton
    \/ CompanyView_handleConfirmAction
    \/ ModalOnCancel
    \/ \E id \in Ids(requests) : CompanyView_handleToggleChat(id)
    \/ \E id \in Ids(requests), text \in ChatInputs : CompanyView_sendMessage(id, text)

Next ==
    \/ \E v \in Views : Load(v)
    \/ \E fd \in FormInputs : ClientView_fillForm(fd)
    \/ ClientView_handleSubmit
    \/ ClientView_submitTimeout
    \/ ClientView_hideTimeout
    \/ \E id \in Ids(requests) : ClientView_handleToggleChat(id)
    \/ \E id \in Ids(requests), text \in ChatInputs : ClientView_sendMessage(id, text)
    \/ CompanyNext

Spec == Init /\ [][Next]_vars

\* The requester's form alone, one change event at a time
NextForm ==
    \/ Load("Client")
    \/ \E name \in Fields, value \in InputValues : ClientView_handleInputChange(name, value)
    \/ ClientView_handleSubmit
    \/ ClientView_submitTimeout
    \/ ClientView_hideTimeout

SpecForm == Init /\ [][NextForm]_vars

\* One session of the requester's form: the page stays loaded, and a timer
\* that was set fires (the event loop runs every setTimeout callback).
NextSession ==
    \/ \E name \in Fields, value \in InputValues : ClientView_handleInputChange(name, value)
    \/ ClientView_handleSubmit
    \/ ClientView_submitTimeout
    \/ ClientView_hideTimeout

SpecSession ==
    /\ Init
    /\ [][NextSession]_vars
    /\ WF_vars(ClientView_submitTimeout)
    /\ WF_vars(ClientView_hideTimeout)

\* handleStatusChange called with any id and any target status
DirectStatusChange(id, newStatus) ==
    /\ app = "mounted"
    /\ view = "Company"
    /\ CompanyView_statusChangeCall(id, newStatus)
    /\ UNCHANGED modalState

NextDirect ==
    \/ Load("Company")
    \/ CompanyNext
    \/ \E id \in Ids(requests) \cup {"req-0"}, newStatus \in RequestStatus :
           DirectStatusChange(id, newStatus)

SpecDirect == Init /\ [][NextDirect]_vars

\* the origin's storage quota is used up: from now on setItem throws
StorageFills ==
    /\ ~storageFull
    /\ storageFull' = TRUE
    /\ UNCHANGED << localStorage, app, tab2, uuidCount, view, requests,
                    openChatId, clientVars, modalState >>

\* every handler, on a device whose storage may fill up
NextQuota ==
    \/ Next
    \/ StorageFills

SpecQuota == Init /\ [][NextQuota]_vars

\* what 'fuelingRequests' may hold when the page is opened: nothing, a text
\* that is not JSON, the JSON of an empty collection, the JSON of a
\* collection other than the seed
StartupItems ==
    { absentItem, malformedItem, JSONstringify(<< >>),
      JSONstringify(<< [initialRequests[1] EXCEPT !.status = "Completed"] >>) }

\* before the first page load: nothing is mounted; the device has its id
\* (uuidCount = 1) or has never drawn one
InitStartup ==
    /\ uuidCount \in {0, 1}
    /\ localStorage \in
          { [ fuelingServiceClientId |-> IF uuidCount = 0 THEN Null ELSE uuidv4(1),
              fuelingRequests |-> item ] : item \in StartupItems }
    /\ app = "unloaded"
    /\ storageFull = FALSE
    /\ tab2 = closedTab
    /\ view = "Client"
    /\ requests = << >>
    /\ openChatId = Null
    /\ formData = emptyFormData
    /\ errors = noErrors
    /\ isSubmitting = FALSE
    /\ showSuccess = FALSE
    /\ addTimers = noTimer
    /\ hideTimers = 0
    /\ modalState = closedModal

NextStartup ==
    \/ \E v \in Views : Load(v)
    \/ CompanyNext

SpecStartup == InitStartup /\ [][NextStartup]_vars

\* The second tab, opened on the Operator View: App is constructed from the
\* shared localStorage and its first save effect runs
Tab2_Load ==
    /\ ~parseThrows(localStorage.fuelingRequests)
    /\ ~storageFull
    /\ tab2' = [open |-> TRUE, requests |-> loadRequests(localStorage)]
    /\ localStorage' = saveRequests(localStorage, loadRequests(localStorage))
    /\ UNCHANGED << app, storageFull, uuidCount, view, requests, openChatId,
                    clientVars, modalState >>

\* handleStatusChange of the second tab, followed by its save effect
Tab2_statusChangeCall(id, newStatus) ==
    /\ ~storageFull
    /\ tab2' = [tab2 EXCEPT
                  !.requests = CompanyView_handleStatusChange(tab2.requests, id, newStatus)]
    /\ localStorage' = saveRequests(localStorage,
                           CompanyView_handleStatusChange(tab2.requests, id, newStatus))
    /\ UNCHANGED << app, storageFull, uuidCount, view, requests, openChatId,
                    clientVars, modalState >>

\* the confirm button of a card of the second tab
Tab2_ConfirmButton(id) ==
    /\ tab2.open
    /\ id \in Ids(tab2.requests)
    /\ ~confirmDisabled(find(tab2.requests, id))
    /\ Tab2_statusChangeCall(id, "Confirmed")

\* the complete button of a card of the second tab
Tab2_CompleteButton(id) ==
    /\ tab2.open
    /\ id \in Ids(tab2.requests)
    /\ ~completeDisabled(find(tab2.requests, id))
    /\ Tab2_statusChangeCall(id, "Completed")

\* Two sessions on one store: this tab on the Requester View (its form),
\* the second tab on the Operator View.  Neither is told of the other's
\* writes.
NextTabs ==
    \/ Load("Client")
    \/ \E fd \in FormInputs : ClientView_fillForm(fd)
    \/ ClientView_handleSubmit
    \/ ClientView_submitTimeout
    \/ ClientView_hideTimeout
    \/ Tab2_Load
    \/ \E id \in Ids(tab2.requests) : Tab2_ConfirmButton(id)
    \/ \E id \in Ids(tab2.requests) : Tab2_CompleteButton(id)

SpecTabs == Init /\ [][NextTabs]_vars

\* The two sessions, with the chat of the requester's cards as well: the
\* read acknowledgement and the requester's messages are saved too
NextTabsChat ==
    \/ NextTabs
    \/ \E id \in Ids(requests) : ClientView_handleToggleChat(id)
    \/ \E id \in Ids(requests), text \in ChatInputs : ClientView_sendMessage(id, text)

SpecTabsChat == Init /\ [][NextTabsChat]_vars

\* updateRequest called with any request object: a copy of a request of the
\* collection under the id of any request, or under an id nobody has
UpdateInputs(reqs) ==
    { [reqs[i] EXCEPT !.id = id, !.status = st, !.hasUnreadUpdates = unread] :
         i \in 1..Len(reqs), id \in Ids(reqs) \cup {"req-0"},
         st \in RequestStatus, unread \in BOOLEAN }

\* a call of App.updateRequest(updatedRequest), the onUpdateRequest of ClientView
App_updateRequestCall(updatedRequest) ==
    /\ app = "mounted"
    /\ view = "Client"
    /\ SetRequests(App_updateRequest(requests, updatedRequest))
    /\ UNCHANGED << uuidCount, view, openChatId, clientVars, modalState >>

\* a call of CompanyView.updateRequest(updatedRequest)
CompanyView_updateRequestCall(updatedRequest) ==
    /\ app = "mounted"
    /\ view = "Company"
    /\ SetRequests(CompanyView_updateRequest(requests, updatedRequest))
    /\ UNCHANGED << uuidCount, view, openChatId, clientVars, modalState >>

NextUpdate ==
    \/ \E v \in Views : Load(v)
    \/ \E u \in UpdateInputs(requests) : App_updateRequestCall(u)
    \/ \E u \in UpdateInputs(requests) : CompanyView_updateRequestCall(u)

SpecUpdate == Init /\ [][NextUpdate]_vars

\* ================================================================== claims
TerminalStatus == {"Completed", "Cancelled"}

\* the edges of the status state machine
LegalEdges ==
    { <<"Pending", "Confirmed">>, <<"Pending", "Completed">>,
      <<"Confirmed", "Completed">>, <<"Pending", "Cancelled">>,
      <<"Confirmed", "Cancelled">> }

\* the requests present before and after a step
Kept == Ids(requests) \cap Ids(requests')

\* every request but the one with this id is the same, at the same place
OthersUnchanged(id) ==
    /\ Len(requests') = Len(requests)
    /\ \A i \in 1..Len(requests) :
          /\ requests'[i].id = requests[i].id
          /\ requests[i].id # id => requests'[i] = requests[i]

IsPrefix(s, t) == Len(s) <= Len(t) /\ \A i \in 1..Len(s) : s[i] = t[i]

\* a text with nothing but whitespace in it
IsBlank(s) == \A i \in 1..Len(s) : s[i] \in Whitespace

\* C1: under direct calls of handleStatusChange with any target status, the
\* status of a request changes only along an edge of the state machine; any
\* other call leaves the request as it was.
C1_OnlyLegalEdges ==
    [][\A id \in Kept :
          \/ find(requests', id) = find(requests, id)
          \/ << find(requests, id).status, find(requests', id).status >> \in LegalEdges]_vars

\* C2: through the enabled controls of the Operator View (the prompt's confirm
\* button included), a request that is Completed or Cancelled keeps its status.
C2_TerminalIsFinal ==
    [][\A id \in Kept :
          find(requests, id).status \in TerminalStatus
             => find(requests', id).status = find(requests, id).status]_vars

\* C3: a submit while a field is blank after trimming schedules no deferred
\* add, leaves the collection and its stored copy alone, and records an error
\* for the blank fields and for no other field; a deferred add is only ever
\* pending for a form without a blank field.
C3_BlankSubmitRejected ==
    /\ [](\A i \in 1..Len(addTimers) : \A k \in Fields : ~IsBlank(addTimers[i][k]))
    /\ [][(ClientView_handleSubmit /\ \E k \in Fields : IsBlank(formData[k]))
             => /\ requests' = requests
                /\ localStorage' = localStorage
                /\ addTimers' = noTimer
                /\ isSubmitting' = FALSE
                /\ \A k \in Fields :
                      errors'[k] = IF IsBlank(formData[k]) THEN RequiredMessage
                                   ELSE Undefined]_vars

\* C3 witness: a submit was refused for a field holding a space only, the
\* padded field got no error, and nothing was scheduled or added
C3_Witness ==
    /\ formData["airline"] = <<" ">>
    /\ errors["airline"] = RequiredMessage
    /\ formData["standNumber"] = <<" ", "b">>
    /\ errors["standNumber"] = Undefined
    /\ addTimers = noTimer
    /\ ~isSubmitting
    /\ requests = initialRequests

\* the collection without its Completed requests, by recursion on the list
RECURSIVE WithoutCompleted(_)
WithoutCompleted(s) ==
    IF s = << >> THEN << >>
    ELSE (IF Head(s).status = "Completed" THEN << >> ELSE << Head(s) >>)
         \o WithoutCompleted(Tail(s))

\* C4: after the confirmed clear-completed the collection holds no Completed
\* request and is the previous collection with exactly the Completed ones
\* deleted, the others unchanged and in the same order.
C4_ClearCompleted ==
    [][(CompanyView_handleConfirmAction /\ modalState.action = "clearCompleted")
          => /\ requests' = WithoutCompleted(requests)
             /\ \A i \in 1..Len(requests') : requests'[i].status # "Completed"
             /\ \A i \in 1..Len(requests) :
                   requests[i].status # "Completed"
                      => \E j \in 1..Len(requests') : requests'[j] = requests[i]]_vars

\* C4 witness: req-1 was cleared (only clear-completed removes a request)
\* while req-2, not Completed, stayed
C4_Witness ==
    /\ view = "Company"
    /\ "req-1" \notin Ids(requests)
    /\ "req-2" \in Ids(requests)
    /\ find(requests, "req-2").status = "Cancelled"

\* the ids of a message list are pairwise distinct
DistinctMessageIds(msgs) ==
    \A i, j \in 1..Len(msgs) : msgs[i].id = msgs[j].id => i = j

AllIds(reqs) ==
    Ids(reqs) \cup UNION { {reqs[i].messages[j].id : j \in 1..Len(reqs[i].messages)}
                           : i \in 1..Len(reqs) }

\* C6: when the delay elapses, add puts one new request at the front: fresh
\* id, the device's clientId, the submitted field values, Pending, no message,
\* no unread flag; the collection as it is at that moment follows unchanged.
C6_AddAtFront ==
    [][ClientView_submitTimeout
          => /\ Len(requests') = Len(requests) + 1
             /\ Tail(requests') = requests
             /\ Head(requests').id \notin AllIds(requests)
             /\ Head(requests').clientId = localStorage.fuelingServiceClientId
             /\ \A k \in Fields : Head(requests')[k] = Head(addTimers)[k]
             /\ Head(requests').status = "Pending"
             /\ Head(requests').messages = << >>
             /\ Head(requests').hasUnreadUpdates = FALSE]_vars

\* C6 witness: a second add went in front of the device's first request,
\* which the operator had confirmed in between
C6_Witness ==
    /\ view = "Client"
    /\ showSuccess
    /\ Len(requests) = 4
    /\ requests[1].clientId = clientId /\ requests[1].status = "Pending"
    /\ requests[2].clientId = clientId /\ requests[2].status = "Confirmed"
    /\ requests[3].id = "req-1"

\* C7: the requester's list holds exactly the device's requests, each once,
\* whatever order the sort leaves them in; the operator's list is the collection.
C7_VisibleLists ==
    /\ \A vis \in clientRequests(requests, clientId) :
          /\ \A i \in 1..Len(vis) : vis[i].clientId = clientId
          /\ \A i \in 1..Len(requests) :
                requests[i].clientId = clientId
                   => \E j \in 1..Len(vis) : vis[j] = requests[i]
          /\ \A i, j \in 1..Len(vis) : vis[i].id = vis[j].id => i = j
    /\ \A i \in 1..Len(requests) :
          \E j \in 1..Len(companyRequests(requests)) :
             companyRequests(requests)[j] = requests[i]

\* C7 witness: the requester view with a request of the device among the
\* requests of other clients
C7_Witness ==
    /\ view = "Client"
    /\ \E i \in 1..Len(requests) : requests[i].clientId = clientId
    /\ \E i \in 1..Len(requests) : requests[i].clientId # clientId

\* C8: in the Operator View every step that changes the status of a request
\* or appends to its messages (confirm, complete, confirmed cancel, message)
\* leaves that request with hasUnreadUpdates = TRUE and every other request
\* as it was.
C8_OperatorSetsUnread ==
    [][(view = "Company" /\ requests' # requests)
          => \A id \in Kept :
                (\/ find(requests', id).status # find(requests, id).status
                 \/ find(requests', id).messages # find(requests, id).messages)
                   => /\ find(requests', id).hasUnreadUpdates = TRUE
                      /\ OthersUnchanged(id)]_vars

\* C8 witness: req-1, seeded with the flag off, was confirmed; req-2 is untouched
C8_Witness ==
    /\ Len(requests) = 2
    /\ requests[1].id = "req-1"
    /\ requests[1].status = "Confirmed"
    /\ requests[1].hasUnreadUpdates = TRUE
    /\ requests[2] = initialRequests[2]

\* C9: a message append of the requester changes the message list of the
\* target request and nothing else in the collection.
C9_RequesterAppendFrame ==
    [][\A id \in Ids(requests) :
          (\E text \in ChatInputs : ClientView_sendMessage(id, text))
             => /\ OthersUnchanged(id)
                /\ find(requests', id) =
                      [find(requests, id) EXCEPT !.messages = find(requests', id).messages]
                /\ Len(find(requests', id).messages) = Len(find(requests, id).messages) + 1]_vars

\* C9 witness: a request of the device whose last message is the requester's,
\* the flag still off
C9_Witness ==
    \E i \in 1..Len(requests) :
       /\ requests[i].clientId = clientId
       /\ requests[i].messages # << >>
       /\ requests[i].messages[Len(requests[i].messages)].sender = "Client"
       /\ requests[i].hasUnreadUpdates = FALSE

\* C10: opening the chat of a request of the device whose flag is on turns
\* the flag off in that step, sends no message and changes nothing else.
C10_OpenChatClearsUnread ==
    [][\A id \in Ids(requests) :
          (/\ ClientView_handleToggleChat(id)
           /\ openChatId # id
           /\ find(requests, id).hasUnreadUpdates)
             => /\ find(requests', id) =
                      [find(requests, id) EXCEPT !.hasUnreadUpdates = FALSE]
                /\ OthersUnchanged(id)
                /\ openChatId' = id
                /\ uuidCount' = uuidCount]_vars

\* C10 witness: the chat is open on a request of the device that the operator
\* had confirmed (which raised the flag), and the flag is off
C10_Witness ==
    /\ view = "Client"
    /\ openChatId \in Ids(requests)
    /\ find(requests, openChatId).clientId = clientId
    /\ find(requests, openChatId).status = "Confirmed"
    /\ find(requests, openChatId).hasUnreadUpdates = FALSE
    /\ find(requests, openChatId).messages = << >>
    /\ "req-2" \in Ids(requests)
    /\ find(requests, "req-2").hasUnreadUpdates = TRUE

\* C11: cancelling a request and clearing the Completed ones happen only in
\* the step that confirms the open prompt for that action: a step that opens
\* the prompt (the cancel button, the clear-completed button) or declines it
\* leaves the collection and its stored copy alone, and confirming the prompt
\* opened for a Confirmed request leaves that request Cancelled.
C11_PromptRequired ==
    /\ [][\/ requests' = requests
          \/ \A id \in Kept :
                (find(requests, id).status # "Cancelled"
                    /\ find(requests', id).status = "Cancelled")
                   => /\ modalState = [isOpen |-> TRUE, action |-> "cancelRequest",
                                       requestId |-> id]
                      /\ modalState' = closedModal]_vars
    /\ [][Len(requests') < Len(requests)
             => /\ modalState.isOpen /\ modalState.action = "clearCompleted"
                /\ modalState' = closedModal]_vars
    /\ [][((modalState'.isOpen /\ modalState' # modalState) \/ ModalOnCancel)
             => requests' = requests /\ localStorage' = localStorage]_vars
    /\ [][(/\ modalState.action = "cancelRequest"
           /\ modalState.requestId \in Ids(requests)
           /\ find(requests, modalState.requestId).status = "Confirmed"
           /\ CompanyView_handleConfirmAction)
             => /\ find(requests', modalState.requestId).status = "Cancelled"
                /\ OthersUnchanged(modalState.requestId)]_vars

\* C11 witness: req-2, Confirmed in the seed, is Cancelled and the prompt is
\* closed again, while req-1 is still Pending
C11_Witness ==
    /\ view = "Company"
    /\ modalState = closedModal
    /\ Len(requests) = 2
    /\ requests[1] = initialRequests[1]
    /\ requests[2].id = "req-2"
    /\ requests[2].status = "Cancelled"

\* the ids of the requests are pairwise distinct
DistinctRequestIds(reqs) ==
    \A i, j \in 1..Len(reqs) : reqs[i].id = reqs[j].id => i = j

\* C12: a call of updateRequest (of App or of CompanyView) with a request
\* whose id matches none leaves the collection as it was, contents and order;
\* with a matching id it puts the given request at the place of the one
\* request with that id and leaves every other request as it was.
C12_UpdateById ==
    [][\A u \in UpdateInputs(requests) :
          (App_updateRequestCall(u) \/ CompanyView_updateRequestCall(u))
             => IF u.id \notin Ids(requests)
                THEN requests' = requests
                ELSE /\ OthersUnchanged(u.id)
                     /\ find(requests', u.id) = u
                     /\ Cardinality({i \in 1..Len(requests) : requests'[i] # requests[i]}) <= 1
                     /\ DistinctRequestIds(requests')]_vars

\* C12 witness: req-1 was replaced, at its place, by a Completed copy of
\* req-2 carrying the id req-1, and req-2 is as it was seeded
C12_Witness ==
    /\ Len(requests) = 2
    /\ requests[1] = [initialRequests[2] EXCEPT !.id = "req-1", !.status = "Completed"]
    /\ requests[2] = initialRequests[2]

\* C13: in a mounted session, once the save effect of a step has run, the
\* stored item is the JSON of the whole in-memory collection: parsing it
\* gives the collection back, after every add, update and clear-completed.
C13_StoredEqualsMemory ==
    app = "mounted"
       => /\ localStorage.fuelingRequests.present
          /\ ~parseThrows(localStorage.fuelingRequests)
          /\ JSONparse(localStorage.fuelingRequests) = requests
          /\ loadRequests(localStorage) = requests

\* C13 witness: after an add (a request of the device), an update (it is
\* Confirmed) and a clear-completed (req-1 is gone) the stored collection is
\* the one in memory
C13_Witness ==
    /\ app = "mounted"
    /\ "req-1" \notin Ids(requests)
    /\ \E i \in 1..Len(requests) :
          requests[i].clientId = clientId /\ requests[i].status = "Confirmed"
    /\ JSONparse(localStorage.fuelingRequests) = requests

\* C14: a save that fails (setItem throws) does not crash the session: the
\* tree stays mounted with the mutation in memory, so that later adds,
\* updates and clear-completed still take effect.
C14_WriteFailureCaught == app # "crashed"

\* C15: the first page load of a session mounts the application; it starts
\* with the seed collection when nothing is stored or the stored text is
\* malformed, and with the stored collection when the text is well-formed.
C15_StartupLoad ==
    [][app = "unloaded"
          => /\ app' = "mounted"
             /\ requests' = IF \/ ~localStorage.fuelingRequests.present
                               \/ ~localStorage.fuelingRequests.wellFormed
                            THEN initialRequests
                            ELSE localStorage.fuelingRequests.doc]_vars

\* the place of the request with this id in a list
indexOf(reqs, id) == CHOOSE i \in 1..Len(reqs) : reqs[i].id = id

\* Pending requests come before the others, and two requests of the same
\* group (both Pending, or both not) stand as they stand in the store
PendingFirstStable(vis, reqs) ==
    \A i, j \in 1..Len(vis) :
       i < j =>
          /\ vis[j].status = "Pending" => vis[i].status = "Pending"
          /\ (vis[i].status = "Pending") = (vis[j].status = "Pending")
                => indexOf(reqs, vis[i].id) < indexOf(reqs, vis[j].id)

\* C16: the list the requester sees (as V8 sorts it) has the Pending
\* requests first and keeps the store order inside each group, so that a
\* request of the device that was just added, at the front of the store and
\* Pending, is the first of the list.
C16_PendingFirstStable ==
    LET own == ownRequests(requests, clientId)
        vis == sortV8(own)
    IN  /\ vis \in clientRequests(requests, clientId)
        /\ PendingFirstStable(vis, requests)
        /\ (own # << >> /\ Head(own).status = "Pending") => Head(vis) = Head(own)

\* C17: the acknowledgement stays visible for the three seconds that follow
\* each completed submission: while the three-second timer of a completion
\* is still pending (that completion is less than 3 s old), showSuccess is on.
C17_AcknowledgedThreeSeconds == hideTimers > 0 => showSuccess

\* the longest collection a session can build
MaxRequests == Len(initialRequests) + MaxUuid

\* C18: while the page stays loaded, at most one deferred add is pending; a
\* submit that passes validation schedules one with the form as submitted;
\* a pending add leaves only by firing, which adds exactly one request; and
\* every pending add does fire.
C18_SubmitAddsOnce ==
    /\ [](Len(addTimers) <= 1)
    /\ [][(ClientView_handleSubmit /\ isValid(validateForm(formData)))
             => addTimers' = << formData >>]_vars
    /\ [][addTimers' # addTimers /\ addTimers # << >>
             => /\ addTimers' = Tail(addTimers)
                /\ Len(requests') = Len(requests) + 1
                /\ Tail(requests') = requests]_vars
    /\ [][requests' # requests => addTimers # << >> /\ addTimers' = Tail(addTimers)]_vars
    /\ \A n \in 0..MaxRequests :
          (addTimers # << >> /\ Len(requests) = n)
             ~> (addTimers = << >> /\ Len(requests) = n + 1)

\* C18 witness: the first submission was added, and the add of a second
\* one is pending
C18_Witness ==
    /\ Len(requests) = Len(initialRequests) + 1
    /\ requests[1].clientId = clientId
    /\ Len(addTimers) = 1
    /\ isSubmitting

\* C19: the ids of the requests are pairwise distinct, and no step changes
\* the id, the clientId or one of the four text fields of a request: a step
\* that keeps the length keeps the id at every place, and a request present
\* before and after a step has the same clientId and the same field values.
C19_IdentityImmutable ==
    /\ [](DistinctRequestIds(requests))
    /\ [][\/ requests' = requests
          \/ /\ Len(requests') = Len(requests)
                    => \A i \in 1..Len(requests) : requests'[i].id = requests[i].id
             /\ \A i \in 1..Len(requests), j \in 1..Len(requests') :
                   requests'[j].id = requests[i].id
                      => /\ requests'[j].clientId = requests[i].clientId
                         /\ \A k \in Fields : requests'[j][k] = requests[i][k]]_vars

\* C19 witness: the request the device added (id uuid-2) was completed by
\* the operator and got a message, and still has the device's clientId and
\* the field values of the form
C19_Witness ==
    \E i \in 1..Len(requests) :
       /\ requests[i].id = uuidv4(2)
       /\ requests[i].clientId = clientId
       /\ \A k \in Fields : requests[i][k] = <<"a">>
       /\ requests[i].status = "Completed"
       /\ Len(requests[i].messages) = 1

\* C20: with two sessions on one store, the step in which a session saves
\* (a page load or a setRequests of this tab; a page load or a status change
\* of the second tab) leaves the stored item equal to the JSON of that
\* session's whole collection, whatever the other session had stored.
C20_LastWriteWins ==
    [][/\ (requests' # requests \/ Load("Client"))
            => /\ localStorage'.fuelingRequests = JSONstringify(requests')
               /\ JSONparse(localStorage'.fuelingRequests) = requests'
       /\ tab2' # tab2
            => /\ localStorage'.fuelingRequests = JSONstringify(tab2'.requests)
               /\ JSONparse(localStorage'.fuelingRequests) = tab2'.requests]_vars

\* C20 witness: the second tab had confirmed req-1 and saved; then this tab,
\* which still holds req-1 as Pending, added a request and saved: the store
\* holds this tab's collection and the confirmation is not in it
C20_Witness ==
    /\ tab2.open
    /\ "req-1" \in Ids(tab2.requests)
    /\ find(tab2.requests, "req-1").status = "Confirmed"
    /\ Len(requests) = Len(initialRequests) + 1
    /\ requests[2] = initialRequests[1]
    /\ JSONparse(localStorage.fuelingRequests) = requests

\* the collection that is stored (none when the item is absent or malformed)
persisted(storage) ==
    IF storage.fuelingRequests.present /\ storage.fuelingRequests.wellFormed
    THEN JSONparse(storage.fuelingRequests)
    ELSE << >>

\* C21: with an operator session and a requester session on one store, no
\* save takes a stored request out of Completed or Cancelled, and no save
\* removes a message from the stored message list of a request that stays
\* in the store.
C21_PersistedMonotone ==
    [][\/ localStorage' = localStorage
       \/ \A i \in 1..Len(persisted(localStorage)),
             j \in 1..Len(persisted(localStorage')) :
             LET old == persisted(localStorage)[i]
                 new == persisted(localStorage')[j]
             IN  new.id = old.id
                    => /\ old.status \in TerminalStatus => new.status = old.status
                       /\ IsPrefix(old.messages, new.messages)]_vars

====
